---------------------------- MODULE Spec2Model ----------------------------
(***************************************************************************)
(* Model of package view (src/view/view.go): the progress reporter         *)
(* started by ShowProgress, PrintSummary with the shared page-type tally,  *)
(* and the summary records and CSV lines built by the report writers.      *)
(*                                                                         *)
(* Three specifications share the variables:                              *)
(*   Spec / LiveSpec  the progress reporter (LiveSpec adds fairness),      *)
(*   SummarySpec      PrintSummary next to a concurrent tally update,      *)
(*   ReportSpec       SaveResultsToFile / ToExcel / ToSimpleHTML / ToHTML. *)
(* Wall-clock time (startTime, elapsed seconds, ReportTime), file-system   *)
(* contents (screenshots) and cell styling carry no claim and are left out.*)
(***************************************************************************)
EXTENDS Integers, Sequences, FiniteSets, TLC

VARIABLES
    \* ---- ShowProgress ----
    totalDomains,   \* parameter totalDomains
    processed,      \* *processed, the shared int32 counter
    doneChan,       \* "open" | "closed"
    progressDone,   \* "open" | "closed" | "panic" (close of a closed channel)
    tickerC,        \* ticker.C holds a tick (buffer of one)
    tickerOn,       \* the ticker is running (NewTicker .. Stop)
    pcCall,         \* ShowProgress itself: "idle" | "returned"
    pcGo,           \* the goroutine: "none" | "start" | "select" | "print"
                    \*   | "stopTicker" | "closeDone" | "done"
    current,        \* the goroutine's local current (last sample)
    exitCase,       \* the return taken: "none" | "ticker" (l.62) | "doneChan" (l.68)
    line,           \* the progress line on the terminal (\r rewrites it)
    \* ---- PrintSummary ----
    cfg,            \* [ExtractInfo, Screenshot, ScreenshotAlive]
    pageTypeCount,  \* the shared map: page type -> count (0: no such key)
    mutex,          \* owner of pageTypeCountMutex: "free" | "PrintSummary" | "Add"
    pcSum,          \* PrintSummary's position
    pcAdd,          \* the concurrent tally update's position
    lenSeen,        \* what len(pageTypeCount) returned to PrintSummary
    ranged,         \* keys already visited by the range loop
    out,            \* lines printed by PrintSummary
    \* ---- report writers ----
    results,        \* the []checker.Result handed to a writer
    onlyAlive,      \* parameter onlyAlive
    called,         \* the writer that ran: "none" | "File" | "Excel" | "SimpleHTML" | "HTML"
    err,            \* its error result: "nil" | "create" | "template" | "save"
    file,           \* lines written to the CSV file
    data,           \* the TemplateData built
    sheetRows       \* data rows written to the main sheet

progressVars == <<totalDomains, processed, doneChan, progressDone, tickerC,
                  tickerOn, pcCall, pcGo, current, exitCase, line>>
summaryVars  == <<cfg, pageTypeCount, mutex, pcSum, pcAdd, lenSeen, ranged, out>>
reportVars   == <<results, onlyAlive, called, err, file, data, sheetRows>>
vars == <<progressVars, summaryVars, reportVars>>

--------------------------------------------------------------------------
(* Bounds of the model *)

\* totalDomains ranges over 0..MaxTotal and LargeTotal
MaxTotal == 2
\* a total large enough for a two-decimal percentage to round up
LargeTotal == 20001
\* single task completions are followed one by one up to this counter value;
\* past it the model moves to the last two values below the total
MaxSingle == 2

\* largest int32 (the width of *processed and of int32(totalDomains))
MaxInt32 == 2147483647

NoLine == [percent |-> [kind |-> "none", value |-> 0], current |-> -1, total |-> -1]

TotalValues == (0..MaxTotal) \cup {LargeTotal}

--------------------------------------------------------------------------
(* Pure helpers of ShowProgress *)

\* int32(x), l.61: two's-complement truncation of an int below 2^32
Int32(x) ==
    IF x > MaxInt32 THEN (x - MaxInt32 - 1) + (-MaxInt32 - 1) ELSE x

\* fmt's %.2f of float64(current)/float64(total)*100, l.64-65: kind "num" with
\* the text's value in hundredths of a percent (the quotient rounded to the
\* nearest hundredth, ties to even), or the IEEE result of a zero divisor.
FormatPercent(cur, total) ==
    IF total = 0
    THEN [kind |-> IF cur = 0 THEN "NaN" ELSE IF cur > 0 THEN "+Inf" ELSE "-Inf",
          value |-> 0]
    ELSE LET num == cur * 10000
             q   == num \div total
             r2  == 2 * (num % total)
         IN  [kind |-> "num",
              value |-> IF r2 > total THEN q + 1
                        ELSE IF r2 < total THEN q
                        ELSE IF q % 2 = 0 THEN q ELSE q + 1]

\* mutant: the comparison written > instead of >=
SampleEndsStrict(cur, total) == cur > Int32(total)

\* the outcome of a sample, l.60-63: return, or go on to print
SampleEnds(cur, total) == cur >= Int32(total)

--------------------------------------------------------------------------
(* Idle values of the parts a specification does not exercise *)

\* the page types the tally is keyed by
PageTypes == {"cms", "login"}

SummaryIdle ==
    /\ cfg = [ExtractInfo |-> FALSE, Screenshot |-> FALSE, ScreenshotAlive |-> FALSE]
    /\ pageTypeCount = [t \in PageTypes |-> 0]
    /\ mutex = "free"
    /\ pcSum = "idle"
    /\ pcAdd = "idle"
    /\ lenSeen = 0
    /\ ranged = {}
    /\ out = <<>>

NoData == [TotalDomains |-> 0, AliveDomains |-> 0, DeadDomains |-> 0, Results |-> <<>>]

ReportIdle ==
    /\ results = <<>>
    /\ onlyAlive = FALSE
    /\ called = "none"
    /\ err = "nil"
    /\ file = <<>>
    /\ data = NoData
    /\ sheetRows = <<>>

ProgressIdle ==
    /\ totalDomains = 0
    /\ processed = 0
    /\ doneChan = "open"
    /\ progressDone = "open"
    /\ tickerC = FALSE
    /\ tickerOn = FALSE
    /\ pcCall = "idle"
    /\ pcGo = "none"
    /\ current = 0
    /\ exitCase = "none"
    /\ line = NoLine

--------------------------------------------------------------------------
(* ShowProgress and its goroutine *)

Init ==
    /\ totalDomains \in TotalValues
    /\ processed = 0
    /\ doneChan = "open"
    /\ progressDone = "open"
    /\ tickerC = FALSE
    /\ tickerOn = FALSE
    /\ pcCall = "idle"
    /\ pcGo = "none"
    /\ current = 0
    /\ exitCase = "none"
    /\ line = NoLine
    /\ SummaryIdle
    /\ ReportIdle

\* l.50-52, 72: the call starts the goroutine and returns
ShowProgress ==
    /\ pcCall = "idle"
    /\ pcCall' = "returned"
    /\ pcGo' = "start"
    /\ UNCHANGED <<totalDomains, processed, doneChan, progressDone, tickerC,
                   tickerOn, current, exitCase, line>>
    /\ UNCHANGED <<summaryVars, reportVars>>

\* mutant: close(progressDone) run at once instead of deferred
StartTickerClosesNow ==
    /\ pcGo = "start"
    /\ tickerOn' = TRUE
    /\ progressDone' = "closed"
    /\ pcGo' = "select"
    /\ UNCHANGED <<totalDomains, processed, doneChan, tickerC,
                   pcCall, current, exitCase, line>>
    /\ UNCHANGED <<summaryVars, reportVars>>

\* l.53-55: the defers are registered and the ticker created
StartTicker ==
    /\ pcGo = "start"
    /\ tickerOn' = TRUE
    /\ pcGo' = "select"
    /\ UNCHANGED <<totalDomains, processed, doneChan, progressDone, tickerC,
                   pcCall, current, exitCase, line>>
    /\ UNCHANGED <<summaryVars, reportVars>>

\* the runtime's ticker: a tick is put in ticker.C unless one is waiting there
Tick ==
    /\ tickerOn
    /\ ~tickerC
    /\ tickerC' = TRUE
    /\ UNCHANGED <<totalDomains, processed, doneChan, progressDone, tickerOn,
                   pcCall, pcGo, current, exitCase, line>>
    /\ UNCHANGED <<summaryVars, reportVars>>

\* mutant: the sample taken with atomic.SwapInt32(processed, 0)
RecvTickSwap ==
    /\ pcGo = "select"
    /\ tickerC
    /\ tickerC' = FALSE
    /\ current' = processed
    /\ processed' = 0
    /\ IF SampleEnds(processed, totalDomains)
       THEN /\ pcGo' = "stopTicker"
            /\ exitCase' = "ticker"
       ELSE /\ pcGo' = "print"
            /\ UNCHANGED exitCase
    /\ UNCHANGED <<totalDomains, doneChan, progressDone, tickerOn,
                   pcCall, line>>
    /\ UNCHANGED <<summaryVars, reportVars>>

\* mutant: the comparison made on the previous sample, before the load
RecvTickStale ==
    /\ pcGo = "select"
    /\ tickerC
    /\ tickerC' = FALSE
    /\ current' = processed
    /\ IF SampleEnds(current, totalDomains)
       THEN /\ pcGo' = "stopTicker"
            /\ exitCase' = "ticker"
       ELSE /\ pcGo' = "print"
            /\ UNCHANGED exitCase
    /\ UNCHANGED <<totalDomains, processed, doneChan, progressDone, tickerOn,
                   pcCall, line>>
    /\ UNCHANGED <<summaryVars, reportVars>>

\* l.59-63: case <-ticker.C, the atomic load and the comparison
RecvTick ==
    /\ pcGo = "select"
    /\ tickerC
    /\ tickerC' = FALSE
    /\ current' = processed
    /\ IF SampleEnds(processed, totalDomains)
       THEN /\ pcGo' = "stopTicker"
            /\ exitCase' = "ticker"
       ELSE /\ pcGo' = "print"
            /\ UNCHANGED exitCase
    /\ UNCHANGED <<totalDomains, processed, doneChan, progressDone, tickerOn,
                   pcCall, line>>
    /\ UNCHANGED <<summaryVars, reportVars>>

\* l.64-66: the percentage and the Printf
PrintProgress ==
    /\ pcGo = "print"
    /\ line' = [percent |-> FormatPercent(current, totalDomains),
                current |-> current, total |-> totalDomains]
    /\ pcGo' = "select"
    /\ UNCHANGED <<totalDomains, processed, doneChan, progressDone, tickerC,
                   tickerOn, pcCall, current, exitCase>>
    /\ UNCHANGED <<summaryVars, reportVars>>

\* mutant: the stop signal honoured only once the counter reached the total
RecvDoneNeedsBoth ==
    /\ pcGo = "select"
    /\ doneChan = "closed"
    /\ processed >= totalDomains
    /\ pcGo' = "stopTicker"
    /\ exitCase' = "doneChan"
    /\ UNCHANGED <<totalDomains, processed, doneChan, progressDone, tickerC,
                   tickerOn, pcCall, current, line>>
    /\ UNCHANGED <<summaryVars, reportVars>>

\* l.67-68: case <-doneChan
RecvDone ==
    /\ pcGo = "select"
    /\ doneChan = "closed"
    /\ pcGo' = "stopTicker"
    /\ exitCase' = "doneChan"
    /\ UNCHANGED <<totalDomains, processed, doneChan, progressDone, tickerC,
                   tickerOn, pcCall, current, line>>
    /\ UNCHANGED <<summaryVars, reportVars>>

\* l.55: deferred ticker.Stop(), run first on return
StopTicker ==
    /\ pcGo = "stopTicker"
    /\ tickerOn' = FALSE
    /\ pcGo' = "closeDone"
    /\ UNCHANGED <<totalDomains, processed, doneChan, progressDone, tickerC,
                   pcCall, current, exitCase, line>>
    /\ UNCHANGED <<summaryVars, reportVars>>

\* mutant: progressDone closed inside the loop, which then goes on
CloseThenLoop ==
    /\ pcGo = "closeDone"
    /\ progressDone' = IF progressDone = "open" THEN "closed" ELSE "panic"
    /\ pcGo' = "select"
    /\ UNCHANGED <<totalDomains, processed, doneChan, tickerC, tickerOn,
                   pcCall, current, exitCase, line>>
    /\ UNCHANGED <<summaryVars, reportVars>>

\* l.53: deferred close(progressDone), run last; the goroutine is gone after it
CloseProgressDone ==
    /\ pcGo = "closeDone"
    /\ progressDone' = IF progressDone = "open" THEN "closed" ELSE "panic"
    /\ pcGo' = "done"
    /\ UNCHANGED <<totalDomains, processed, doneChan, tickerC, tickerOn,
                   pcCall, current, exitCase, line>>
    /\ UNCHANGED <<summaryVars, reportVars>>

\* The counter values the completing probe tasks can bring the counter to
\* before the reporter looks again: one more task, or all but one, or all.
NextCounts ==
    {n \in {processed + 1, totalDomains - 1, totalDomains} :
        /\ n > processed
        /\ n <= totalDomains
        /\ n <= MaxInt32
        /\ (n = processed + 1 /\ n <= MaxSingle) \/ n >= totalDomains - 1}

\* probe tasks complete and add to the counter (atomic.AddInt32 by the caller)
TasksComplete ==
    /\ \E n \in NextCounts : processed' = n
    /\ UNCHANGED <<totalDomains, doneChan, progressDone, tickerC, tickerOn,
                   pcCall, pcGo, current, exitCase, line>>
    /\ UNCHANGED <<summaryVars, reportVars>>

\* the caller's stop signal: close(doneChan)
Stop ==
    /\ doneChan = "open"
    /\ doneChan' = "closed"
    /\ UNCHANGED <<totalDomains, processed, progressDone, tickerC, tickerOn,
                   pcCall, pcGo, current, exitCase, line>>
    /\ UNCHANGED <<summaryVars, reportVars>>

Next ==
    \/ ShowProgress
    \/ StartTicker
    \/ Tick
    \/ RecvTick
    \/ PrintProgress
    \/ RecvDone
    \/ StopTicker
    \/ CloseProgressDone
    \/ TasksComplete
    \/ Stop

Spec == Init /\ [][Next]_vars

\* The ticker keeps firing (the claim's premise); a goroutine that can take a
\* step is scheduled; select picks among its ready cases uniformly at random,
\* so a case that is ready again and again is taken (strong fairness).
LiveSpec ==
    /\ Spec
    /\ WF_vars(Tick)
    /\ WF_vars(StartTicker)
    /\ WF_vars(PrintProgress)
    /\ WF_vars(StopTicker)
    /\ WF_vars(CloseProgressDone)
    /\ SF_vars(RecvTick)
    /\ SF_vars(RecvDone)

--------------------------------------------------------------------------
(* PrintSummary next to a concurrent update of the page-type tally *)

\* a page type is counted up to this many times
MaxCount == 2

\* the tallies PrintSummary can be handed: some types, each counted once
InitialTallies == [PageTypes -> {0, 1}]

\* the keys of the map
Keys == {t \in PageTypes : pageTypeCount[t] > 0}

SummaryInit ==
    /\ ProgressIdle
    /\ ReportIdle
    /\ cfg \in [ExtractInfo : BOOLEAN, Screenshot : BOOLEAN, ScreenshotAlive : BOOLEAN]
    /\ pageTypeCount \in InitialTallies
    /\ mutex = "free"
    /\ pcSum = "idle"
    /\ pcAdd = "idle"
    /\ lenSeen = 0
    /\ ranged = {}
    /\ out = <<>>

\* l.77-81: header and totals
PrintTotals ==
    /\ pcSum = "idle"
    /\ out' = out \o <<"title", "rule", "totals">>
    /\ pcSum' = "guard"
    /\ UNCHANGED <<cfg, pageTypeCount, mutex, pcAdd, lenSeen, ranged>>
    /\ UNCHANGED <<progressVars, reportVars>>

\* l.84, left operand false: && does not evaluate len(pageTypeCount)
SkipTally ==
    /\ pcSum = "guard"
    /\ ~cfg.ExtractInfo
    /\ pcSum' = "shots"
    /\ UNCHANGED <<cfg, pageTypeCount, mutex, pcAdd, lenSeen, ranged, out>>
    /\ UNCHANGED <<progressVars, reportVars>>

\* what an unsynchronised len(pageTypeCount) can return: the size of the map,
\* or, racing with an update that holds the mutex and is about to insert a
\* key, also the size after that insert
LenOutcomes ==
    LET n == Cardinality(Keys)
    IN  IF pcAdd = "locked" /\ Keys # PageTypes
        THEN {n, n + 1}
        ELSE {n}

\* l.84-85: len(pageTypeCount) > 0 is evaluated, the mutex not yet taken
ReadLen ==
    /\ pcSum = "guard"
    /\ cfg.ExtractInfo
    /\ \E n \in LenOutcomes :
         /\ lenSeen' = n
         /\ IF n > 0
            THEN /\ out' = Append(out, "types")
                 /\ pcSum' = "lock"
            ELSE /\ out' = out
                 /\ pcSum' = "shots"
    /\ UNCHANGED <<cfg, pageTypeCount, mutex, pcAdd, ranged>>
    /\ UNCHANGED <<progressVars, reportVars>>

\* l.86: pageTypeCountMutex.Lock()
LockTally ==
    /\ pcSum = "lock"
    /\ mutex = "free"
    /\ mutex' = "PrintSummary"
    /\ ranged' = {}
    /\ pcSum' = "range"
    /\ UNCHANGED <<cfg, pageTypeCount, pcAdd, lenSeen, out>>
    /\ UNCHANGED <<progressVars, reportVars>>

\* l.87-89: one iteration of the range loop, in the map's arbitrary order
RangeTally ==
    /\ pcSum = "range"
    /\ \E t \in Keys \ ranged :
         /\ out' = Append(out, <<t, pageTypeCount[t]>>)
         /\ ranged' = ranged \cup {t}
    /\ UNCHANGED <<cfg, pageTypeCount, mutex, pcSum, pcAdd, lenSeen>>
    /\ UNCHANGED <<progressVars, reportVars>>

\* l.90: the loop is over, pageTypeCountMutex.Unlock()
UnlockTally ==
    /\ pcSum = "range"
    /\ Keys \subseteq ranged
    /\ mutex' = "free"
    /\ pcSum' = "shots"
    /\ UNCHANGED <<cfg, pageTypeCount, pcAdd, lenSeen, ranged, out>>
    /\ UNCHANGED <<progressVars, reportVars>>

\* l.94-102: screenshot count and elapsed time, then return
PrintShots ==
    /\ pcSum = "shots"
    /\ out' = out \o (IF cfg.ScreenshotAlive THEN <<"shotsAlive">>
                      ELSE IF cfg.Screenshot THEN <<"shots">>
                      ELSE <<>>) \o <<"time">>
    /\ pcSum' = "done"
    /\ UNCHANGED <<cfg, pageTypeCount, mutex, pcAdd, lenSeen, ranged>>
    /\ UNCHANGED <<progressVars, reportVars>>

\* a probe task records a page type: it takes the mutex ...
AddLock ==
    /\ pcAdd = "idle"
    /\ mutex = "free"
    /\ \E t \in PageTypes : pageTypeCount[t] < MaxCount
    /\ mutex' = "Add"
    /\ pcAdd' = "locked"
    /\ UNCHANGED <<cfg, pageTypeCount, pcSum, lenSeen, ranged, out>>
    /\ UNCHANGED <<progressVars, reportVars>>

\* ... counts the type in the map ...
AddCount ==
    /\ pcAdd = "locked"
    /\ \E t \in PageTypes :
         /\ pageTypeCount[t] < MaxCount
         /\ pageTypeCount' = [pageTypeCount EXCEPT ![t] = @ + 1]
    /\ pcAdd' = "counted"
    /\ UNCHANGED <<cfg, mutex, pcSum, lenSeen, ranged, out>>
    /\ UNCHANGED <<progressVars, reportVars>>

\* ... and releases the mutex
AddUnlock ==
    /\ pcAdd = "counted"
    /\ mutex' = "free"
    /\ pcAdd' = "idle"
    /\ UNCHANGED <<cfg, pageTypeCount, pcSum, lenSeen, ranged, out>>
    /\ UNCHANGED <<progressVars, reportVars>>

SummaryNext ==
    \/ PrintTotals
    \/ SkipTally
    \/ ReadLen
    \/ LockTally
    \/ RangeTally
    \/ UnlockTally
    \/ PrintShots
    \/ AddLock
    \/ AddCount
    \/ AddUnlock

SummarySpec == SummaryInit /\ [][SummaryNext]_vars

\* C8: every read of pageTypeCount by PrintSummary, the emptiness test
\* included, happens with pageTypeCountMutex held by PrintSummary, and the
\* mutex is released before PrintSummary returns.
C8_TallyReadUnderMutex ==
    /\ [][(ReadLen \/ RangeTally) => mutex = "PrintSummary"]_vars
    /\ [](pcSum = "range" => mutex = "PrintSummary")
    /\ [](pcSum \in {"shots", "done"} => mutex # "PrintSummary")

--------------------------------------------------------------------------
(* The report writers.  A string is the sequence of its characters. *)

\* the results a writer is handed are at most this many
MaxResults == 2

Http  == <<"h", "t", "t", "p", ":", "/", "/">>
Https == <<"h", "t", "t", "p", "s", ":", "/", "/">>

\* strings.HasPrefix
HasPrefix(str, prefix) ==
    /\ Len(str) >= Len(prefix)
    /\ SubSeq(str, 1, Len(prefix)) = prefix

\* strings.ReplaceAll(str, old, new) for one-character old and new
ReplaceAll(str, old, new) ==
    [i \in 1..Len(str) |-> IF str[i] = old THEN new ELSE str[i]]

DigitChars == <<"0", "1", "2", "3", "4", "5", "6", "7", "8", "9">>

RECURSIVE FormatNat(_)
FormatNat(n) ==
    IF n < 10 THEN <<DigitChars[n + 1]>>
    ELSE Append(FormatNat(n \div 10), DigitChars[(n % 10) + 1])

\* fmt's %d
FormatInt(n) == IF n < 0 THEN <<"-">> \o FormatNat(-n) ELSE FormatNat(n)

\* fmt's %.2f of float64(ms), ms a whole number of milliseconds
FormatMillis(ms) == FormatInt(ms) \o <<".", "0", "0">>

RECURSIVE Join(_, _)
\* the fields with sep between them
Join(fields, sep) ==
    IF Len(fields) = 0 THEN <<>>
    ELSE IF Len(fields) = 1 THEN fields[1]
    ELSE fields[1] \o <<sep>> \o Join(Tail(fields), sep)

\* the number of comma-separated fields of a line
FieldCount(str) == Cardinality({i \in 1..Len(str) : str[i] = ","}) + 1

\* l.114: the header line; each column title stands as one character
Header ==
    Join(<< <<"Domain">>, <<"State">>, <<"Code">>, <<"Millis">>,
            <<"PageType">>, <<"Title">>, <<"Message">> >>, ",")

NoPageInfo == [present |-> FALSE, Type |-> <<>>]

\* checker.Result values: alive and dead, with and without PageInfo, with
\* commas in the title, the message and the domain, with and without scheme
ResultValues ==
    { [Domain |-> <<"a">>, Alive |-> TRUE, Status |-> 200, StatusText |-> <<"O", "K">>,
       Millis |-> 12, PageInfo |-> [present |-> TRUE, Type |-> <<"c", "m", "s">>],
       Title |-> <<"t">>, Message |-> <<>>, Screenshot |-> <<"s">>],
      [Domain |-> <<"b">>, Alive |-> FALSE, Status |-> 0, StatusText |-> <<"t", "o">>,
       Millis |-> 0, PageInfo |-> NoPageInfo,
       Title |-> <<>>, Message |-> <<"e", ",", "f">>, Screenshot |-> <<>>],
      [Domain |-> Http \o <<"c">>, Alive |-> TRUE, Status |-> 301, StatusText |-> <<"M">>,
       Millis |-> 7, PageInfo |-> NoPageInfo,
       Title |-> <<"x", ",", "y">>, Message |-> <<>>, Screenshot |-> <<>>],
      [Domain |-> <<"d", ",", "e">>, Alive |-> FALSE, Status |-> 0, StatusText |-> <<"i">>,
       Millis |-> 0, PageInfo |-> NoPageInfo,
       Title |-> <<>>, Message |-> <<"b", "a", "d">>, Screenshot |-> <<>>] }

RECURSIVE SeqsUpTo(_, _)
SeqsUpTo(S, n) ==
    IF n = 0 THEN {<<>>}
    ELSE LET shorter == SeqsUpTo(S, n - 1)
         IN  shorter \cup {Append(q, x) : q \in {t \in shorter : Len(t) = n - 1}, x \in S}

ReportInit ==
    /\ ProgressIdle
    /\ SummaryIdle
    /\ results \in SeqsUpTo(ResultValues, MaxResults)
    /\ onlyAlive \in BOOLEAN
    /\ called = "none"
    /\ err = "nil"
    /\ file = <<>>
    /\ data = NoData
    /\ sheetRows = <<>>

\* l.118-121, 217-220: the page type, or the default when PageInfo is nil
PageTypeOf(result, default) ==
    IF result.PageInfo.present THEN result.PageInfo.Type ELSE default

\* l.245-248, 455-458
DomainLink(domain) ==
    IF ~HasPrefix(domain, Http) /\ ~HasPrefix(domain, Https)
    THEN Http \o domain
    ELSE domain

\* l.123-130: one data line
CSVLine(result) ==
    Join(<< result.Domain,
            result.StatusText,
            FormatInt(result.Status),
            FormatMillis(result.Millis),
            PageTypeOf(result, <<>>),
            ReplaceAll(result.Title, ",", " "),
            ReplaceAll(result.Message, ",", " ") >>, ",")

\* l.106-134
SaveResultsToFile ==
    /\ called = "none"
    /\ called' = "File"
    /\ \E created \in BOOLEAN :
         IF created
         THEN /\ err' = "nil"
              /\ file' = <<Header>> \o [i \in 1..Len(results) |-> CSVLine(results[i])]
         ELSE /\ err' = "create"
              /\ file' = <<>>
    /\ UNCHANGED <<results, onlyAlive, data, sheetRows>>
    /\ UNCHANGED <<progressVars, summaryVars>>

\* l.250-261: the relative screenshot path
ExcelScreenshot(result) ==
    IF result.Screenshot # <<>>
    THEN <<"screenshots/">> \o result.Screenshot
    ELSE <<>>

\* l.276-298: the TemplateResult appended by SaveResultsToExcel
ExcelTemplateResult(result) ==
    [Domain       |-> result.Domain,
     DomainLink   |-> DomainLink(result.Domain),
     StatusClass  |-> IF result.Alive THEN "status-alive" ELSE "status-dead",
     DomainStatus |-> IF result.Alive THEN "reachable" ELSE "unreachable",
     StatusText   |-> result.StatusText,
     Status       |-> result.Status,
     ResponseTime |-> result.Millis,
     PageType     |-> PageTypeOf(result, <<>>),
     Title        |-> result.Title,
     Message      |-> result.Message,
     Screenshot   |-> ExcelScreenshot(result),
     Alive        |-> result.Alive]

\* l.232-239, 300-323: the cells A..H of one row of the main sheet
ExcelRow(row, result) ==
    [row   |-> row,
     cells |-> <<result.Domain, result.StatusText, result.Status, result.Millis,
                 PageTypeOf(result, <<>>), result.Title, result.Message,
                 IF result.Screenshot # <<>> THEN "link" ELSE "none">>]

\* l.192-202: the state before the loop
ExcelStart(rs) ==
    [row  |-> 2,
     screenshotRow |-> 2,
     rows |-> <<>>,
     data |-> [TotalDomains |-> Len(rs), AliveDomains |-> 0, DeadDomains |-> 0,
               Results |-> <<>>]]

\* l.205-350: one iteration of the loop
ExcelStep(acc, result, only) ==
    IF only /\ ~result.Alive
    THEN acc
    ELSE [row  |-> acc.row + 1,
          screenshotRow |-> acc.screenshotRow + 1,
          rows |-> Append(acc.rows, ExcelRow(acc.row, result)),
          data |-> [TotalDomains |-> acc.data.TotalDomains,
                    AliveDomains |-> acc.data.AliveDomains + (IF result.Alive THEN 1 ELSE 0),
                    DeadDomains  |-> acc.data.DeadDomains + (IF result.Alive THEN 0 ELSE 1),
                    Results      |-> Append(acc.data.Results, ExcelTemplateResult(result))]]

RECURSIVE ExcelLoop(_, _, _, _)
\* l.204: for _, result := range results
ExcelLoop(rs, only, i, acc) ==
    IF i > Len(rs) THEN acc
    ELSE ExcelLoop(rs, only, i + 1, ExcelStep(acc, rs[i], only))

\* l.137-385
SaveResultsToExcel ==
    /\ called = "none"
    /\ called' = "Excel"
    /\ \E outcome \in {"nil", "mkdir", "save"} :
         /\ err' = outcome
         /\ IF outcome = "mkdir"
            THEN UNCHANGED <<data, sheetRows>>
            ELSE LET end == ExcelLoop(results, onlyAlive, 1, ExcelStart(results))
                 IN  /\ data' = end.data
                     /\ sheetRows' = end.rows
    /\ UNCHANGED <<results, onlyAlive, file>>
    /\ UNCHANGED <<progressVars, summaryVars>>

\* l.25-47, 460-465: the data URI of the screenshot file, empty when the
\* result has none or the file cannot be read
HTMLScreenshot(result, readable) ==
    IF result.Screenshot # <<>> /\ readable
    THEN <<"data:">> \o result.Screenshot
    ELSE <<>>

\* l.441-493: the TemplateResult appended by SaveResultsToSimpleHTML
HTMLTemplateResult(result, readable) ==
    [Domain       |-> result.Domain,
     DomainLink   |-> DomainLink(result.Domain),
     StatusClass  |-> IF result.Alive THEN "status-alive" ELSE "status-dead",
     DomainStatus |-> IF result.Alive THEN "alive" ELSE "dead",
     StatusText   |-> result.StatusText,
     Status       |-> result.Status,
     ResponseTime |-> result.Millis,
     PageType     |-> PageTypeOf(result, <<"-">>),
     Title        |-> result.Title,
     Message      |-> result.Message,
     Screenshot   |-> HTMLScreenshot(result, readable),
     Alive        |-> result.Alive]

\* mutant: every result counted, before the onlyAlive filter
HTMLStepCountsFirst(acc, result, only, readable) ==
    LET counted == [acc EXCEPT !.TotalDomains = @ + 1,
                               !.AliveDomains = @ + (IF result.Alive THEN 1 ELSE 0)]
    IN  IF only /\ ~result.Alive
        THEN counted
        ELSE [counted EXCEPT
                !.Results = Append(@, HTMLTemplateResult(result, readable))]

\* l.431-493: one iteration of the loop
HTMLStep(acc, result, only, readable) ==
    IF only /\ ~result.Alive
    THEN acc
    ELSE [acc EXCEPT
            !.TotalDomains = @ + 1,
            !.AliveDomains = @ + (IF result.Alive THEN 1 ELSE 0),
            !.Results = Append(@, HTMLTemplateResult(result, readable))]

RECURSIVE HTMLLoop(_, _, _, _, _)
\* l.430: for _, result := range results
HTMLLoop(rs, only, readable, i, acc) ==
    IF i > Len(rs) THEN acc
    ELSE HTMLLoop(rs, only, readable, i + 1, HTMLStep(acc, rs[i], only, readable))

\* l.425-495: the TemplateData handed to the template
SimpleHTMLData(rs, only, readable) ==
    LET end == HTMLLoop(rs, only, readable, 1, NoData)
    IN  [end EXCEPT !.DeadDomains = end.TotalDomains - end.AliveDomains]

\* l.413-509, the body run as fn ("SimpleHTML", or "HTML" for the wrapper)
SaveHTML(fn) ==
    /\ called = "none"
    /\ called' = fn
    /\ \E outcome \in {"nil", "create", "template", "execute"}, readable \in BOOLEAN :
         /\ err' = outcome
         /\ IF outcome = "create"
            THEN UNCHANGED data
            ELSE data' = SimpleHTMLData(results, onlyAlive, readable)
    /\ UNCHANGED <<results, onlyAlive, file, sheetRows>>
    /\ UNCHANGED <<progressVars, summaryVars>>

\* l.413-509
SaveResultsToSimpleHTML == SaveHTML("SimpleHTML")

\* l.512-514
SaveResultsToHTML == SaveHTML("HTML")

ReportNext ==
    \/ SaveResultsToFile
    \/ SaveResultsToExcel
    \/ SaveResultsToSimpleHTML
    \/ SaveResultsToHTML

ReportSpec == ReportInit /\ [][ReportNext]_vars

\* the results that pass the onlyAlive filter, by position
Passing == {i \in 1..Len(results) : ~onlyAlive \/ results[i].Alive}

AliveRows(d) == {i \in 1..Len(d.Results) : d.Results[i].Alive}

\* C5: the summary SaveResultsToSimpleHTML hands to the template has
\* TotalDomains = AliveDomains + DeadDomains, TotalDomains the number of rows
\* in Results (the results passing the onlyAlive filter) and AliveDomains the
\* number of those rows with Alive = true.
C5_HTMLSummaryAddsUp ==
    (called \in {"SimpleHTML", "HTML"} /\ err # "create") =>
        /\ data.TotalDomains = data.AliveDomains + data.DeadDomains
        /\ data.TotalDomains = Len(data.Results)
        /\ Len(data.Results) = Cardinality(Passing)
        /\ data.AliveDomains = Cardinality(AliveRows(data))
        /\ data.DeadDomains >= 0

\* onlyAlive dropped a dead result and kept an alive one
C5_Witness ==
    /\ called = "SimpleHTML"
    /\ err = "nil"
    /\ onlyAlive
    /\ Len(results) > data.TotalDomains
    /\ data.AliveDomains > 0

\* C9: the file holds the header and then one line per result in input order,
\* and every data line has as many comma-separated fields as the header, seven.
C9_CSVColumnsAligned ==
    (called = "File" /\ err = "nil") =>
        /\ Len(file) = Len(results) + 1
        /\ file[1] = Header
        /\ FieldCount(Header) = 7
        /\ \A i \in 1..Len(results) :
             /\ HasPrefix(file[i + 1], results[i].Domain)
             /\ FieldCount(file[i + 1]) = FieldCount(Header)

\* C10: the summary built in SaveResultsToExcel has TotalDomains =
\* AliveDomains + DeadDomains, and TotalDomains is the number of entries of
\* its Results and the number of data rows written to the main sheet.
C10_ExcelSummaryAddsUp ==
    (called = "Excel" /\ err # "mkdir") =>
        /\ data.TotalDomains = data.AliveDomains + data.DeadDomains
        /\ data.TotalDomains = Len(data.Results)
        /\ data.TotalDomains = Len(sheetRows)

--------------------------------------------------------------------------
(* Properties of the progress reporter *)

ReporterStep ==
    \/ ShowProgress
    \/ StartTicker
    \/ RecvTick
    \/ PrintProgress
    \/ RecvDone
    \/ StopTicker
    \/ CloseProgressDone

\* C1: with the ticker firing, once ShowProgress was called and the counter
\* has reached totalDomains or doneChan is closed, the goroutine eventually
\* returns and progressDone is closed; either condition alone is enough.
C1_ReporterTerminates ==
    (pcCall = "returned" /\ (processed >= totalDomains \/ doneChan = "closed"))
        ~> (pcGo = "done" /\ progressDone = "closed")

\* the stop signal ended the reporter while the counter was below the total
C1_Witness ==
    /\ pcGo = "done"
    /\ progressDone = "closed"
    /\ exitCase = "doneChan"
    /\ processed < totalDomains

\* C2: once progressDone is closed no progress line is printed any more.
C2_NoPrintAfterTermination ==
    [][progressDone # "open" => (~PrintProgress /\ line' = line)]_vars

\* the reporter printed, then ended
C2_Witness ==
    /\ progressDone = "closed"
    /\ line # NoLine

\* C3: no step of ShowProgress or of its goroutine changes *processed; the
\* counter changes only by the tasks' increments and never decreases.
C3_ReporterLeavesCounter ==
    [][/\ ReporterStep => processed' = processed
       /\ processed' # processed =>
            /\ processed' > processed
            /\ UNCHANGED <<pcCall, pcGo, tickerC, tickerOn, progressDone,
                           current, exitCase, line>>]_vars

\* the reporter sampled and printed, tasks went on counting, the reporter ended
C3_Witness ==
    /\ pcGo = "done"
    /\ line # NoLine
    /\ processed > line.current

\* C4: with totalDomains = 0 the reporter ends at its first sample or on the
\* stop signal, never prints, and never divides by zero.
C4_ZeroDomains ==
    /\ [](totalDomains = 0 =>
            /\ line = NoLine
            /\ pcGo # "print"
            /\ exitCase = "ticker" => current = 0)
    /\ [](line # NoLine => line.percent.kind = "num")
    /\ [][(totalDomains = 0 /\ RecvTick) => pcGo' = "stopTicker"]_vars

\* zero domains, ended by the first sample, no stop signal given
C4_Witness ==
    /\ totalDomains = 0
    /\ progressDone = "closed"
    /\ exitCase = "ticker"
    /\ doneChan = "open"
    /\ line = NoLine

\* C6 as stated: every printed line carries a sample strictly below
\* totalDomains and a printed percentage below 100.
C6_PrintedBelowHundred ==
    /\ line # NoLine => (line.current < line.total /\ line.percent.value < 10000)
    /\ pcGo = "print" => current < totalDomains

\* C6: every printed line carries a sample strictly below totalDomains, so the
\* percentage computed is below 100 and its two-decimal rendering is at most
\* 100.00; a sample at or above totalDomains is not printed but ends the
\* reporter.
C6_PrintedBelowTotal ==
    /\ line # NoLine =>
         /\ line.current < line.total
         /\ line.total = totalDomains
         /\ line.percent.kind = "num"
         /\ line.percent.value \in 0..10000
    /\ pcGo = "print" => current < totalDomains
    /\ (exitCase = "ticker") => (current >= totalDomains /\ pcGo # "print")

\* a line was printed and a later sample at the total ended the reporter
C6_Witness ==
    /\ line # NoLine
    /\ line.current > 0
    /\ exitCase = "ticker"
    /\ current = totalDomains

==========================================================================
